---- MODULE Spec2Model ----
(***************************************************************************)
(* Session orchestration and terminal multiplexing of the sandbox server.  *)
(*                                                                         *)
(* Two generations of the server live in the repository and both are       *)
(* modelled; `server` says which one a behaviour runs:                      *)
(*   "project": services/Project.ts, one shared Project Session per        *)
(*              project id, a keyed lock, a TerminalManager and a          *)
(*              FileManager;                                               *)
(*   "legacy":  src/index.ts, a process-wide `terminals` map of Pty        *)
(*              objects (terminal.ts) written by every socket.             *)
(* LockManager and TerminalManager are imported by Project.ts but their    *)
(* sources are not part of the tree; they are modelled from the design     *)
(* document (sections 4.1 and 4.3).                                        *)
(***************************************************************************)
EXTENDS Integers, Sequences, FiniteSets, TLC

\* Number of transport connections (sockets) attached to the server.
NumConns == 2
\* Total number of handler invocations (initialize, disconnect, terminal
\* events) in one behaviour.
MaxCalls == 4

\* Total number of output chunks the shell processes emit in one behaviour.
MaxChunks == 2
\* Longest responseString (in characters) handed to the output callback.
MaxChunkLen == 5

Conns == 1..NumConns
\* Caller-chosen logical terminal ids.
TermIds == {"A", "B"}
\* `null` / "" for a reference or an id.
Null == 0
\* The last-known sandbox id handed to the constructor.
StaleId == 1
\* The `id` field of a terminalResponse payload that carries none.
NoTag == "none"

VARIABLES
    server,          \* "project" | "legacy"
    containerId,     \* Project.containerId
    container,       \* Project.container: the sandbox id the handle refers to
    terminalManager, \* Project.terminalManager: index into tms, or Null
    fileManager,     \* Project.fileManager: sandbox id it is bound to, or Null
    persisted,       \* schema.sandbox.containerId of this project in the database
    running,         \* sandbox ids that are running at the provider
    tms,             \* every TerminalManager constructed: the sandbox it is bound to
    lockQueue,       \* lockManager: callers of acquireLock(projectId), head holds
    pc,              \* per connection: where its current call stands
    tid,             \* per connection: the `id` argument of its createTerminal
    tmRef,           \* per connection: the TerminalManager its pending await uses
    procs,           \* every shell process spawned, in spawn order
    terminals,       \* legacy index.ts: the global id -> Pty map
    events,          \* terminalResponse events pushed to sockets
    rejected,        \* connections whose latest call rejected (threw)
    stale,           \* per initialize() call: the id whose handle reported not-running
    made,            \* per initialize() call: the id of the sandbox it created
    createCalls,     \* number of Container.create calls made
    initCalls,       \* number of initialize() calls made
    disconnects,     \* number of disconnect() calls that returned
    noops,           \* number of terminal events that found no target
    calls,           \* number of handler invocations so far
    hbResult,        \* per connection: what its latest heartbeat returned
    timeoutCalls,    \* number of container.setTimeout calls made
    created,         \* the ids Container.create resolved with, in order
    dbWrites,        \* the ids handed to db.update(...).set, in order
    chunk,           \* the responseString handed to the output callback
    pushed,          \* what one run of the output callback emitted, in order
    otherPc,         \* where a call on a second project's session stands
    otherQueue,      \* lockManager: callers of acquireLock for that project
    fresh,           \* per connection: its initialize() returned and no
                     \* disconnect() call has begun since
    exports,         \* number of fileManager.getFilesForDownload calls made
    pushes           \* number of gitClient.pushFiles calls made

heartbeatVars == <<hbResult, timeoutCalls>>
callbackVars == <<chunk, pushed>>
otherVars == <<otherPc, otherQueue>>
deployVars == <<exports, pushes>>

vars == <<server, containerId, container, terminalManager, fileManager,
          persisted, running, tms, lockQueue, pc, tid, tmRef, procs,
          terminals, events, rejected, stale, made, createCalls, initCalls,
          disconnects, noops, calls, hbResult, timeoutCalls, created,
          dbWrites, chunk, pushed, otherPc, otherQueue, fresh, exports,
          pushes>>

projectVars == <<containerId, container, terminalManager, fileManager,
                 persisted, running, tms, lockQueue, tid, tmRef, rejected,
                 stale, made, createCalls, initCalls, disconnects>>

Range(s) == {s[i] : i \in 1..Len(s)}

\* Positions of a connection inside initialize()'s critical section.
InitCS == {"i_connect", "i_running", "i_create", "i_persist"}
\* Positions inside createTerminal's critical section.
TermCS == {"t_spawn"}
CSPcs == InitCS \cup TermCS
\* Positions of a caller queued in acquireLock whose section has not started.
WaitPcs == {"i_wait", "t_wait"}

----------------------------------------------------------------------------
(* LockManager (design document 4.1): FIFO queue per key; the head of the   *)
(* queue is the holder; released on every exit path of the section.         *)

Acquire(c) == Append(lockQueue, c)

Granted(c) == lockQueue # <<>> /\ Head(lockQueue) = c

Release(c) == IF Granted(c) THEN Tail(lockQueue) ELSE lockQueue

----------------------------------------------------------------------------
Init ==
    /\ server \in {"project", "legacy"}
    /\ containerId \in {Null, StaleId}
    /\ server = "legacy" => containerId = Null
    /\ container = Null
    /\ terminalManager = Null
    /\ fileManager = Null
    /\ persisted = containerId
    /\ running \in {{}, {StaleId}}
    /\ containerId = Null => running = {}
    /\ tms = <<>>
    /\ lockQueue = <<>>
    /\ pc = [c \in Conns |-> "idle"]
    /\ tid = [c \in Conns |-> NoTag]
    /\ tmRef = [c \in Conns |-> Null]
    /\ procs = <<>>
    /\ terminals = [i \in TermIds |-> Null]
    /\ events = {}
    /\ rejected = {}
    /\ stale = [c \in Conns |-> Null]
    /\ made = [c \in Conns |-> Null]
    /\ createCalls = 0
    /\ initCalls = 0
    /\ disconnects = 0
    /\ noops = 0
    /\ calls = 0
    /\ hbResult = [c \in Conns |-> "none"]
    /\ timeoutCalls = 0
    /\ created = <<>>
    /\ dbWrites = <<>>
    /\ chunk = <<>>
    /\ pushed = <<>>
    /\ otherPc = "idle"
    /\ otherQueue = <<>>
    /\ fresh = [c \in Conns |-> FALSE]
    /\ exports = 0
    /\ pushes = 0

----------------------------------------------------------------------------
(* Project.initialize()                                                    *)

\* The call: acquireLock(this.projectId, ...) queues the critical section.
Initialize(c) ==
    /\ server = "project"
    /\ pc[c] = "idle"
    /\ calls < MaxCalls
    /\ calls' = calls + 1
    /\ initCalls' = initCalls + 1
    /\ lockQueue' = Acquire(c)
    /\ pc' = [pc EXCEPT ![c] = "i_wait"]
    /\ rejected' = rejected \ {c}
    /\ stale' = [stale EXCEPT ![c] = Null]
    /\ made' = [made EXCEPT ![c] = Null]
    /\ UNCHANGED <<server, containerId, container, terminalManager,
                   fileManager, persisted, running, tms, tid, tmRef, procs,
                   terminals, events, createCalls>>
    /\ UNCHANGED <<disconnects, noops>>
    /\ UNCHANGED <<heartbeatVars, callbackVars, otherVars>>
    /\ UNCHANGED <<created, dbWrites>>
    /\ UNCHANGED <<fresh, deployVars>>

\* Line 74: `!this.container || !(await this.container.isRunning())`.
AfterConnect(cont) == IF cont = Null THEN "i_create" ELSE "i_running"

\* InitEnter with the body of lines 64-98 run outside acquireLock: the
\* section starts without waiting for the key.
InitEnterUnlocked(c) ==
    /\ pc[c] = "i_wait"
    /\ pc' = [pc EXCEPT ![c] =
                IF containerId # Null THEN "i_connect"
                ELSE AfterConnect(container)]
    /\ UNCHANGED <<server, containerId, container, terminalManager,
                   fileManager, persisted, running, tms, lockQueue, tid,
                   tmRef, procs, terminals, events, rejected, stale, made,
                   createCalls, initCalls, calls>>
    /\ UNCHANGED <<disconnects, noops>>
    /\ UNCHANGED <<heartbeatVars, callbackVars, otherVars>>
    /\ UNCHANGED <<created, dbWrites>>
    /\ UNCHANGED <<fresh, deployVars>>

\* The critical section starts: line 65 decides whether to connect.
InitEnter(c) ==
    /\ pc[c] = "i_wait"
    /\ Granted(c)
    /\ pc' = [pc EXCEPT ![c] =
                IF containerId # Null THEN "i_connect"
                ELSE AfterConnect(container)]
    /\ UNCHANGED <<server, containerId, container, terminalManager,
                   fileManager, persisted, running, tms, lockQueue, tid,
                   tmRef, procs, terminals, events, rejected, stale, made,
                   createCalls, initCalls, calls>>
    /\ UNCHANGED <<disconnects, noops>>
    /\ UNCHANGED <<heartbeatVars, callbackVars, otherVars>>
    /\ UNCHANGED <<created, dbWrites>>
    /\ UNCHANGED <<fresh, deployVars>>

\* InitThrow with the key left held when the section rejects.
InitThrowKeepsLock(c) ==
    /\ lockQueue' = lockQueue
    /\ pc' = [pc EXCEPT ![c] = "idle"]
    /\ rejected' = rejected \cup {c}

\* A rejection inside the critical section: nothing in Project.ts catches it,
\* acquireLock releases the key and initialize() rejects.
InitThrow(c) ==
    /\ lockQueue' = Release(c)
    /\ pc' = [pc EXCEPT ![c] = "idle"]
    /\ rejected' = rejected \cup {c}

\* Container.connect(this.containerId) resolves.
InitConnectOk(c) ==
    /\ pc[c] = "i_connect"
    /\ container' = containerId
    /\ pc' = [pc EXCEPT ![c] = AfterConnect(container')]
    /\ UNCHANGED <<server, containerId, terminalManager, fileManager,
                   persisted, running, tms, lockQueue, tid, tmRef, procs,
                   terminals, events, rejected, stale, made, createCalls,
                   initCalls, calls>>
    /\ UNCHANGED <<disconnects, noops>>
    /\ UNCHANGED <<heartbeatVars, callbackVars, otherVars>>
    /\ UNCHANGED <<created, dbWrites>>
    /\ UNCHANGED <<fresh, deployVars>>

\* Container.connect(this.containerId) rejects.
InitConnectFail(c) ==
    /\ pc[c] = "i_connect"
    /\ InitThrow(c)
    /\ UNCHANGED <<server, containerId, container, terminalManager,
                   fileManager, persisted, running, tms, tid, tmRef, procs,
                   terminals, events, stale, made, createCalls, initCalls,
                   calls>>
    /\ UNCHANGED <<disconnects, noops>>
    /\ UNCHANGED <<heartbeatVars, callbackVars, otherVars>>
    /\ UNCHANGED <<created, dbWrites>>
    /\ UNCHANGED <<fresh, deployVars>>

\* InitIsRunning with the database update of lines 93-98 moved out of the
\* `if`: a running sandbox's id is written again.
InitIsRunningPersists(c) ==
    /\ pc[c] = "i_running"
    /\ IF container \in running
       THEN /\ pc' = [pc EXCEPT ![c] = "i_persist"]
            /\ stale' = stale
            /\ dbWrites' = Append(dbWrites, containerId)
       ELSE /\ pc' = [pc EXCEPT ![c] = "i_create"]
            /\ stale' = [stale EXCEPT ![c] = container]
            /\ dbWrites' = dbWrites
    /\ UNCHANGED <<server, containerId, container, terminalManager,
                   fileManager, persisted, running, tms, lockQueue, tid,
                   tmRef, procs, terminals, events, rejected, made,
                   createCalls, initCalls, calls, disconnects, noops,
                   created>>
    /\ UNCHANGED <<heartbeatVars, callbackVars, otherVars>>
    /\ UNCHANGED <<fresh, deployVars>>

\* InitIsRunning with the answer of isRunning() ignored: a sandbox is
\* created whether or not the connected one runs.
InitIsRunningAlwaysCreates(c) ==
    /\ pc[c] = "i_running"
    /\ pc' = [pc EXCEPT ![c] = "i_create"]
    /\ stale' = [stale EXCEPT ![c] = container]
    /\ UNCHANGED <<server, containerId, container, terminalManager,
                   fileManager, persisted, running, tms, lockQueue, tid,
                   tmRef, procs, terminals, events, rejected, made,
                   createCalls, initCalls, calls, disconnects, noops,
                   created, dbWrites>>
    /\ UNCHANGED <<heartbeatVars, callbackVars, otherVars>>
    /\ UNCHANGED <<fresh, deployVars>>

\* this.container.isRunning() resolves: true ends the section, false goes on
\* to create.
InitIsRunning(c) ==
    /\ pc[c] = "i_running"
    /\ IF container \in running
       THEN /\ lockQueue' = Release(c)
            /\ pc' = [pc EXCEPT ![c] = "i_post"]
            /\ stale' = stale
       ELSE /\ lockQueue' = lockQueue
            /\ pc' = [pc EXCEPT ![c] = "i_create"]
            /\ stale' = [stale EXCEPT ![c] = container]
    /\ UNCHANGED <<server, containerId, container, terminalManager,
                   fileManager, persisted, running, tms, tid, tmRef, procs,
                   terminals, events, rejected, made, createCalls, initCalls,
                   calls>>
    /\ UNCHANGED <<disconnects, noops>>
    /\ UNCHANGED <<heartbeatVars, callbackVars, otherVars>>
    /\ UNCHANGED <<created, dbWrites>>
    /\ UNCHANGED <<fresh, deployVars>>

\* this.container.isRunning() rejects.
InitIsRunningFail(c) ==
    /\ pc[c] = "i_running"
    /\ InitThrow(c)
    /\ UNCHANGED <<server, containerId, container, terminalManager,
                   fileManager, persisted, running, tms, tid, tmRef, procs,
                   terminals, events, stale, made, createCalls, initCalls,
                   calls>>
    /\ UNCHANGED <<disconnects, noops>>
    /\ UNCHANGED <<heartbeatVars, callbackVars, otherVars>>
    /\ UNCHANGED <<created, dbWrites>>
    /\ UNCHANGED <<fresh, deployVars>>

\* A sandbox id the provider has not handed out yet.
FreshId == StaleId + createCalls + 1

\* InitCreateOk without line 90: the new handle is kept, the session's id
\* still names the old sandbox, and that is what gets persisted.
InitCreateOkKeepsId(c) ==
    /\ pc[c] = "i_create"
    /\ createCalls' = createCalls + 1
    /\ running' = running \cup {FreshId}
    /\ container' = FreshId
    /\ made' = [made EXCEPT ![c] = FreshId]
    /\ pc' = [pc EXCEPT ![c] = "i_persist"]
    /\ UNCHANGED <<server, containerId, terminalManager, fileManager,
                   persisted, tms, lockQueue, tid, tmRef, procs, terminals,
                   events, rejected, stale, initCalls, calls>>
    /\ UNCHANGED <<disconnects, noops>>
    /\ UNCHANGED <<heartbeatVars, callbackVars, otherVars>>
    /\ created' = Append(created, FreshId)
    /\ dbWrites' = Append(dbWrites, containerId')
    /\ UNCHANGED <<fresh, deployVars>>

\* Container.create(template) resolves; lines 86-91 set the handle and the id,
\* then the database update is issued.
InitCreateOk(c) ==
    /\ pc[c] = "i_create"
    /\ createCalls' = createCalls + 1
    /\ running' = running \cup {FreshId}
    /\ container' = FreshId
    /\ containerId' = FreshId
    /\ made' = [made EXCEPT ![c] = FreshId]
    /\ pc' = [pc EXCEPT ![c] = "i_persist"]
    /\ UNCHANGED <<server, terminalManager, fileManager, persisted, tms,
                   lockQueue, tid, tmRef, procs, terminals, events, rejected,
                   stale, initCalls, calls>>
    /\ UNCHANGED <<disconnects, noops>>
    /\ UNCHANGED <<heartbeatVars, callbackVars, otherVars>>
    /\ created' = Append(created, FreshId)
    /\ dbWrites' = Append(dbWrites, containerId')
    /\ UNCHANGED <<fresh, deployVars>>

\* Container.create(template) rejects.
InitCreateFail(c) ==
    /\ pc[c] = "i_create"
    /\ createCalls' = createCalls + 1
    /\ InitThrow(c)
    /\ UNCHANGED <<server, containerId, container, terminalManager,
                   fileManager, persisted, running, tms, tid, tmRef, procs,
                   terminals, events, stale, made, initCalls, calls>>
    /\ UNCHANGED <<disconnects, noops>>
    /\ UNCHANGED <<heartbeatVars, callbackVars, otherVars>>
    /\ UNCHANGED <<created, dbWrites>>
    /\ UNCHANGED <<fresh, deployVars>>

\* db.update(schema.sandbox).set({ containerId }) resolves; the section ends.
InitPersistOk(c) ==
    /\ pc[c] = "i_persist"
    /\ persisted' = containerId
    /\ lockQueue' = Release(c)
    /\ pc' = [pc EXCEPT ![c] = "i_post"]
    /\ UNCHANGED <<server, containerId, container, terminalManager,
                   fileManager, running, tms, tid, tmRef, procs, terminals,
                   events, rejected, stale, made, createCalls, initCalls,
                   calls>>
    /\ UNCHANGED <<disconnects, noops>>
    /\ UNCHANGED <<heartbeatVars, callbackVars, otherVars>>
    /\ UNCHANGED <<created, dbWrites>>
    /\ UNCHANGED <<fresh, deployVars>>

\* The database update rejects.
InitPersistFail(c) ==
    /\ pc[c] = "i_persist"
    /\ InitThrow(c)
    /\ UNCHANGED <<server, containerId, container, terminalManager,
                   fileManager, persisted, running, tms, tid, tmRef, procs,
                   terminals, events, stale, made, createCalls, initCalls,
                   calls>>
    /\ UNCHANGED <<disconnects, noops>>
    /\ UNCHANGED <<heartbeatVars, callbackVars, otherVars>>
    /\ UNCHANGED <<created, dbWrites>>
    /\ UNCHANGED <<fresh, deployVars>>

\* InitPost without the `if (!this.terminalManager)` and
\* `if (!this.fileManager)` tests: both are constructed on every call.
InitPostAlwaysConstructs(c) ==
    /\ pc[c] = "i_post"
    /\ IF container = Null
       THEN /\ pc' = [pc EXCEPT ![c] = "idle"]
            /\ rejected' = rejected \cup {c}
            /\ UNCHANGED <<tms, terminalManager, fileManager>>
       ELSE /\ pc' = [pc EXCEPT ![c] = "ready"]
            /\ rejected' = rejected
            /\ tms' = Append(tms, container)
            /\ terminalManager' = Len(tms')
            /\ fileManager' = container
    /\ UNCHANGED <<server, containerId, container, persisted, running,
                   lockQueue, tid, tmRef, procs, terminals, events, stale,
                   made, createCalls, initCalls, calls, disconnects, noops,
                   created, dbWrites>>
    /\ UNCHANGED <<heartbeatVars, callbackVars, otherVars>>
    /\ fresh' = IF container = Null THEN fresh
                ELSE [fresh EXCEPT ![c] = TRUE]
    /\ UNCHANGED deployVars

\* Lines 100-113, run in one turn after acquireLock resolved: the null check,
\* then construct-if-absent of the TerminalManager and the FileManager.
InitPost(c) ==
    /\ pc[c] = "i_post"
    /\ IF container = Null
       THEN /\ pc' = [pc EXCEPT ![c] = "idle"]
            /\ rejected' = rejected \cup {c}
            /\ UNCHANGED <<tms, terminalManager, fileManager>>
       ELSE /\ pc' = [pc EXCEPT ![c] = "ready"]
            /\ rejected' = rejected
            /\ tms' = IF terminalManager = Null
                      THEN Append(tms, container) ELSE tms
            /\ terminalManager' = IF terminalManager = Null
                                  THEN Len(tms') ELSE terminalManager
            /\ fileManager' = IF fileManager = Null
                              THEN container ELSE fileManager
    /\ UNCHANGED <<server, containerId, container, persisted, running,
                   lockQueue, tid, tmRef, procs, terminals, events, stale,
                   made, createCalls, initCalls, calls>>
    /\ UNCHANGED <<disconnects, noops>>
    /\ UNCHANGED <<heartbeatVars, callbackVars, otherVars>>
    /\ UNCHANGED <<created, dbWrites>>
    /\ fresh' = IF container = Null THEN fresh
                ELSE [fresh EXCEPT ![c] = TRUE]
    /\ UNCHANGED deployVars

----------------------------------------------------------------------------
(* Shell processes and the TerminalManager (design document 4.3, 4.4): a    *)
(* registry of process sessions per manager, keyed by logical id.           *)

\* A process as spawned: `sys` is "tm" (TerminalManager) or "pty" (terminal.ts),
\* `reg` says whether its manager's registry still holds it, `emitted` counts
\* the chunks the shell has written and `got` lists, by chunk number, the
\* chunks handed to the output callback.
NewProc(sys, tm, id, c) ==
    [sys |-> sys, tm |-> tm, id |-> id, owner |-> c, live |-> TRUE,
     reg |-> (sys = "tm"), closes |-> 0, written |-> 0, resizes |-> 0,
     emitted |-> 0, got |-> <<>>]

\* Chunks emitted so far by the first n processes.
RECURSIVE EmittedUpTo(_)
EmittedUpTo(n) ==
    IF n = 0 THEN 0 ELSE EmittedUpTo(n - 1) + procs[n].emitted

\* The shell of p writes its next chunk and the data callback is run on it
\* twice.
DeliverTwice(p) ==
    [procs EXCEPT ![p].emitted = @ + 1,
                  ![p].got = @ \o <<procs[p].emitted + 1,
                                    procs[p].emitted + 1>>]

\* The shell of p writes its next chunk; the subscription made at creation
\* (ptyProcess.onData, the onOutput callback) is run on it once.
Deliver(p) ==
    [procs EXCEPT ![p].emitted = @ + 1,
                  ![p].got = Append(@, procs[p].emitted + 1)]

\* The processes manager `tm` has registered (under `id`).
RegisteredIn(tm) ==
    {p \in 1..Len(procs) :
        procs[p].sys = "tm" /\ procs[p].tm = tm /\ procs[p].reg}

RegisteredAs(tm, id) == {p \in RegisteredIn(tm) : procs[p].id = id}

\* Close signal to every process of `ps` and removal from the registry.
CloseProcs(ps) ==
    [p \in 1..Len(procs) |->
        IF p \in ps
        THEN [procs[p] EXCEPT !.live = FALSE, !.reg = FALSE,
                              !.closes = @ + 1]
        ELSE procs[p]]

\* createTerminal(id, onOutput) once the spawn resolved: close-before-replace
\* of a session already registered under id, then register the new one.
TMCreateTerminal(tm, id, c) ==
    Append(CloseProcs(RegisteredAs(tm, id)), NewProc("tm", tm, id, c))

\* sendTerminalData(id, data): forward to the matching process; unknown id is
\* a no-op.
TMSendTerminalData(tm, id) ==
    [p \in 1..Len(procs) |->
        IF p \in RegisteredAs(tm, id)
        THEN [procs[p] EXCEPT !.written = @ + 1] ELSE procs[p]]

\* resizeTerminal(dimensions): resize signal to the active terminal(s).
TMResizeTerminal(tm) ==
    [p \in 1..Len(procs) |->
        IF p \in RegisteredIn(tm)
        THEN [procs[p] EXCEPT !.resizes = @ + 1] ELSE procs[p]]

\* closeTerminal(id): terminate and unregister; unknown id is a no-op.
TMCloseTerminal(tm, id) == CloseProcs(RegisteredAs(tm, id))

\* closeAllTerminals(): close every registered session, clear the registry.
TMCloseAllTerminals(tm) == CloseProcs(RegisteredIn(tm))

\* A terminalData or closeTerminal event has no target: the manager is
\* absent, or nothing is registered under id.
NoTerminal(id) ==
    terminalManager = Null \/ RegisteredAs(terminalManager, id) = {}

\* A resizeTerminal event has no target: no manager, or no active terminal.
NoActiveTerminal ==
    terminalManager = Null \/ RegisteredIn(terminalManager) = {}

----------------------------------------------------------------------------
(* Project.disconnect()                                                    *)

\* Line 118: closeAllTerminals() is called on the current manager (if any)
\* and awaited.
Disconnect(c) ==
    /\ server = "project"
    /\ pc[c] = "ready"
    /\ calls < MaxCalls
    /\ calls' = calls + 1
    /\ tmRef' = [tmRef EXCEPT ![c] = terminalManager]
    /\ pc' = [pc EXCEPT ![c] = "d_close"]
    /\ rejected' = rejected \ {c}
    /\ UNCHANGED <<server, containerId, container, terminalManager,
                   fileManager, persisted, running, tms, lockQueue, tid,
                   procs, terminals, events, stale, made, createCalls,
                   initCalls>>
    /\ UNCHANGED <<disconnects, noops>>
    /\ UNCHANGED <<heartbeatVars, callbackVars, otherVars>>
    /\ UNCHANGED <<created, dbWrites>>
    /\ fresh' = [d \in Conns |-> FALSE]
    /\ UNCHANGED deployVars

\* The bulk close resolved; line 120 drops the manager and line 122 calls
\* stopWatching() on the file manager (if any) and awaits it.
DisconnectClosed(c) ==
    /\ pc[c] = "d_close"
    /\ procs' = IF tmRef[c] = Null THEN procs
                ELSE TMCloseAllTerminals(tmRef[c])
    /\ terminalManager' = Null
    /\ tmRef' = [tmRef EXCEPT ![c] = Null]
    /\ pc' = [pc EXCEPT ![c] = "d_stop"]
    /\ UNCHANGED <<server, containerId, container, fileManager, persisted,
                   running, tms, lockQueue, tid, terminals, events, rejected,
                   stale, made, createCalls, initCalls, calls>>
    /\ UNCHANGED <<disconnects, noops>>
    /\ UNCHANGED <<heartbeatVars, callbackVars, otherVars>>
    /\ UNCHANGED <<created, dbWrites>>
    /\ UNCHANGED <<fresh, deployVars>>

\* The bulk close rejected: disconnect() rejects at line 118.
DisconnectCloseFail(c) ==
    /\ pc[c] = "d_close"
    /\ tmRef[c] # Null
    /\ tmRef' = [tmRef EXCEPT ![c] = Null]
    /\ pc' = [pc EXCEPT ![c] = "idle"]
    /\ rejected' = rejected \cup {c}
    /\ UNCHANGED <<server, containerId, container, terminalManager,
                   fileManager, persisted, running, tms, lockQueue, tid,
                   procs, terminals, events, stale, made, createCalls,
                   initCalls, calls>>
    /\ UNCHANGED <<disconnects, noops>>
    /\ UNCHANGED <<heartbeatVars, callbackVars, otherVars>>
    /\ UNCHANGED <<created, dbWrites>>
    /\ UNCHANGED <<fresh, deployVars>>

\* stopWatching() rejected: disconnect() rejects at line 122, after the
\* terminal manager was dropped and before the file manager is.
DisconnectStopFail(c) ==
    /\ pc[c] = "d_stop"
    /\ fileManager # Null
    /\ pc' = [pc EXCEPT ![c] = "idle"]
    /\ rejected' = rejected \cup {c}
    /\ UNCHANGED <<server, containerId, container, terminalManager,
                   fileManager, persisted, running, tms, lockQueue, tid,
                   tmRef, procs, terminals, events, stale, made, createCalls,
                   initCalls, calls, disconnects, noops>>
    /\ UNCHANGED <<heartbeatVars, callbackVars, otherVars>>
    /\ UNCHANGED <<created, dbWrites>>
    /\ UNCHANGED <<fresh, deployVars>>

\* DisconnectStopped that also drops the sandbox handle and the session's id.
DisconnectStoppedDropsContainer(c) ==
    /\ pc[c] = "d_stop"
    /\ fileManager' = Null
    /\ container' = Null
    /\ containerId' = Null
    /\ disconnects' = disconnects + 1
    /\ pc' = [pc EXCEPT ![c] = "idle"]
    /\ UNCHANGED <<server, terminalManager, persisted, running, tms,
                   lockQueue, tid, tmRef, procs, terminals, events, rejected,
                   stale, made, createCalls, initCalls, calls, noops,
                   created, dbWrites>>
    /\ UNCHANGED <<heartbeatVars, callbackVars, otherVars>>
    /\ UNCHANGED <<fresh, deployVars>>

\* stopWatching() resolved; line 124 drops the file manager; disconnect()
\* returns.
DisconnectStopped(c) ==
    /\ pc[c] = "d_stop"
    /\ fileManager' = Null
    /\ disconnects' = disconnects + 1
    /\ pc' = [pc EXCEPT ![c] = "idle"]
    /\ UNCHANGED <<server, containerId, container, terminalManager,
                   persisted, running, tms, lockQueue, tid, tmRef, procs,
                   terminals, events, rejected, stale, made, createCalls,
                   initCalls, calls>>
    /\ UNCHANGED <<noops>>
    /\ UNCHANGED <<heartbeatVars, callbackVars, otherVars>>
    /\ UNCHANGED <<created, dbWrites>>
    /\ UNCHANGED <<fresh, deployVars>>

----------------------------------------------------------------------------
(* Project.handlers(connection): the terminal handlers                     *)

\* handleCreateTerminal is invoked: acquireLock queues its section.
CreateTerminal(c, id) ==
    /\ server = "project"
    /\ pc[c] = "ready"
    /\ calls < MaxCalls
    /\ calls' = calls + 1
    /\ lockQueue' = Acquire(c)
    /\ tid' = [tid EXCEPT ![c] = id]
    /\ pc' = [pc EXCEPT ![c] = "t_wait"]
    /\ rejected' = rejected \ {c}
    /\ UNCHANGED <<server, containerId, container, terminalManager,
                   fileManager, persisted, running, tms, tmRef, procs,
                   terminals, events, stale, made, createCalls, initCalls>>
    /\ UNCHANGED <<disconnects, noops>>
    /\ UNCHANGED <<heartbeatVars, callbackVars, otherVars>>
    /\ UNCHANGED <<created, dbWrites>>
    /\ UNCHANGED <<fresh, deployVars>>

\* TermEnter without the optional chain: the spawn is issued whether or not
\* a manager exists.
TermEnterNoGuard(c) ==
    /\ pc[c] = "t_wait"
    /\ Granted(c)
    /\ lockQueue' = lockQueue
    /\ pc' = [pc EXCEPT ![c] = "t_spawn"]
    /\ tmRef' = [tmRef EXCEPT ![c] = terminalManager]
    /\ UNCHANGED <<server, containerId, container, terminalManager,
                   fileManager, persisted, running, tms, tid, procs,
                   terminals, events, rejected, stale, made, createCalls,
                   initCalls, calls, disconnects, noops>>
    /\ UNCHANGED <<heartbeatVars, callbackVars, otherVars>>
    /\ UNCHANGED <<created, dbWrites>>
    /\ UNCHANGED <<fresh, deployVars>>

\* The section starts: `this.terminalManager?.createTerminal(id, cb)`.  With
\* no manager the optional chain yields undefined and the section ends.
TermEnter(c) ==
    /\ pc[c] = "t_wait"
    /\ Granted(c)
    /\ IF terminalManager = Null
       THEN /\ lockQueue' = Release(c)
            /\ pc' = [pc EXCEPT ![c] = "ready"]
            /\ tmRef' = tmRef
            /\ noops' = noops + 1
       ELSE /\ lockQueue' = lockQueue
            /\ pc' = [pc EXCEPT ![c] = "t_spawn"]
            /\ tmRef' = [tmRef EXCEPT ![c] = terminalManager]
            /\ noops' = noops
    /\ UNCHANGED <<server, containerId, container, terminalManager,
                   fileManager, persisted, running, tms, tid, procs,
                   terminals, events, rejected, stale, made, createCalls,
                   initCalls, calls>>
    /\ UNCHANGED <<disconnects>>
    /\ UNCHANGED <<heartbeatVars, callbackVars, otherVars>>
    /\ UNCHANGED <<created, dbWrites>>
    /\ UNCHANGED <<fresh, deployVars>>

\* The spawn resolved: the session is registered with the callback of lines
\* 255-267, bound to this connection and this id; the section ends.
TermSpawnOk(c) ==
    /\ pc[c] = "t_spawn"
    /\ procs' = TMCreateTerminal(tmRef[c], tid[c], c)
    /\ lockQueue' = Release(c)
    /\ tmRef' = [tmRef EXCEPT ![c] = Null]
    /\ pc' = [pc EXCEPT ![c] = "ready"]
    /\ UNCHANGED <<server, containerId, container, terminalManager,
                   fileManager, persisted, running, tms, tid, terminals,
                   events, rejected, stale, made, createCalls, initCalls,
                   calls>>
    /\ UNCHANGED <<disconnects, noops>>
    /\ UNCHANGED <<heartbeatVars, callbackVars, otherVars>>
    /\ UNCHANGED <<created, dbWrites>>
    /\ UNCHANGED <<fresh, deployVars>>

\* TermSpawnFail with the key left held when the spawn rejects.
TermSpawnFailKeepsLock(c) ==
    /\ pc[c] = "t_spawn"
    /\ tmRef' = [tmRef EXCEPT ![c] = Null]
    /\ pc' = [pc EXCEPT ![c] = "ready"]
    /\ rejected' = rejected \cup {c}
    /\ UNCHANGED <<server, containerId, container, terminalManager,
                   fileManager, persisted, running, tms, lockQueue, tid,
                   procs, terminals, events, stale, made, createCalls,
                   initCalls, calls, disconnects, noops, created, dbWrites>>
    /\ UNCHANGED <<heartbeatVars, callbackVars, otherVars>>
    /\ UNCHANGED <<fresh, deployVars>>

\* The spawn rejected: the section throws, the handler rejects.
TermSpawnFail(c) ==
    /\ pc[c] = "t_spawn"
    /\ lockQueue' = Release(c)
    /\ tmRef' = [tmRef EXCEPT ![c] = Null]
    /\ pc' = [pc EXCEPT ![c] = "ready"]
    /\ rejected' = rejected \cup {c}
    /\ UNCHANGED <<server, containerId, container, terminalManager,
                   fileManager, persisted, running, tms, tid, procs,
                   terminals, events, stale, made, createCalls, initCalls,
                   calls>>
    /\ UNCHANGED <<disconnects, noops>>
    /\ UNCHANGED <<heartbeatVars, callbackVars, otherVars>>
    /\ UNCHANGED <<created, dbWrites>>
    /\ UNCHANGED <<fresh, deployVars>>

\* handleResizeTerminal: `this.terminalManager?.resizeTerminal(dimensions)`.
ResizeTerminal(c) ==
    /\ server = "project"
    /\ pc[c] = "ready"
    /\ calls < MaxCalls
    /\ calls' = calls + 1
    /\ procs' = IF terminalManager = Null THEN procs
                ELSE TMResizeTerminal(terminalManager)
    /\ noops' = IF NoActiveTerminal THEN noops + 1 ELSE noops
    /\ rejected' = rejected \ {c}
    /\ UNCHANGED <<server, containerId, container, terminalManager,
                   fileManager, persisted, running, tms, lockQueue, pc, tid,
                   tmRef, terminals, events, stale, made, createCalls,
                   initCalls>>
    /\ UNCHANGED <<disconnects>>
    /\ UNCHANGED <<heartbeatVars, callbackVars, otherVars>>
    /\ UNCHANGED <<created, dbWrites>>
    /\ UNCHANGED <<fresh, deployVars>>

\* handleTerminalData: `this.terminalManager?.sendTerminalData(id, data)`.
TerminalData(c, id) ==
    /\ server = "project"
    /\ pc[c] = "ready"
    /\ calls < MaxCalls
    /\ calls' = calls + 1
    /\ procs' = IF terminalManager = Null THEN procs
                ELSE TMSendTerminalData(terminalManager, id)
    /\ noops' = IF NoTerminal(id) THEN noops + 1 ELSE noops
    /\ rejected' = rejected \ {c}
    /\ UNCHANGED <<server, containerId, container, terminalManager,
                   fileManager, persisted, running, tms, lockQueue, pc, tid,
                   tmRef, terminals, events, stale, made, createCalls,
                   initCalls>>
    /\ UNCHANGED <<disconnects>>
    /\ UNCHANGED <<heartbeatVars, callbackVars, otherVars>>
    /\ UNCHANGED <<created, dbWrites>>
    /\ UNCHANGED <<fresh, deployVars>>

\* handleCloseTerminal: `this.terminalManager?.closeTerminal(id)`.
CloseTerminal(c, id) ==
    /\ server = "project"
    /\ pc[c] = "ready"
    /\ calls < MaxCalls
    /\ calls' = calls + 1
    /\ procs' = IF terminalManager = Null THEN procs
                ELSE TMCloseTerminal(terminalManager, id)
    /\ noops' = IF NoTerminal(id) THEN noops + 1 ELSE noops
    /\ rejected' = rejected \ {c}
    /\ UNCHANGED <<server, containerId, container, terminalManager,
                   fileManager, persisted, running, tms, lockQueue, pc, tid,
                   tmRef, terminals, events, stale, made, createCalls,
                   initCalls>>
    /\ UNCHANGED <<disconnects>>
    /\ UNCHANGED <<heartbeatVars, callbackVars, otherVars>>
    /\ UNCHANGED <<created, dbWrites>>
    /\ UNCHANGED <<fresh, deployVars>>

\* connection-independent argument of handlers(): whether a gitClient was
\* handed in.
GitClients == BOOLEAN

\* Deploy without the test of line 211: the export is started whether or not
\* a file manager exists.
DeployNoFileManagerCheck(c, gitClient) ==
    /\ server = "project"
    /\ pc[c] = "ready"
    /\ calls < MaxCalls
    /\ calls' = calls + 1
    /\ IF ~gitClient
       THEN /\ rejected' = rejected \cup {c}
            /\ pc' = pc
            /\ exports' = exports
       ELSE /\ rejected' = rejected \ {c}
            /\ pc' = [pc EXCEPT ![c] = "dp_export"]
            /\ exports' = exports + 1
    /\ pushes' = pushes
    /\ UNCHANGED <<server, containerId, container, terminalManager,
                   fileManager, persisted, running, tms, lockQueue, tid,
                   tmRef, procs, terminals, events, stale, made, createCalls,
                   initCalls, disconnects, noops, created, dbWrites, fresh>>
    /\ UNCHANGED <<heartbeatVars, callbackVars, otherVars>>

\* handleDeploy is invoked: lines 210-211 throw when the gitClient or the
\* file manager is missing, else getFilesForDownload() is called and awaited.
Deploy(c, gitClient) ==
    /\ server = "project"
    /\ pc[c] = "ready"
    /\ calls < MaxCalls
    /\ calls' = calls + 1
    /\ IF ~gitClient \/ fileManager = Null
       THEN /\ rejected' = rejected \cup {c}
            /\ pc' = pc
            /\ exports' = exports
       ELSE /\ rejected' = rejected \ {c}
            /\ pc' = [pc EXCEPT ![c] = "dp_export"]
            /\ exports' = exports + 1
    /\ pushes' = pushes
    /\ UNCHANGED <<server, containerId, container, terminalManager,
                   fileManager, persisted, running, tms, lockQueue, tid,
                   tmRef, procs, terminals, events, stale, made, createCalls,
                   initCalls, disconnects, noops, created, dbWrites, fresh>>
    /\ UNCHANGED <<heartbeatVars, callbackVars, otherVars>>

\* The export resolved: gitClient.pushFiles(tarBase64, projectId) is called and
\* awaited.
DeployExportOk(c) ==
    /\ pc[c] = "dp_export"
    /\ pc' = [pc EXCEPT ![c] = "dp_push"]
    /\ rejected' = rejected
    /\ pushes' = pushes + 1
    /\ exports' = exports
    /\ calls' = calls
    /\ UNCHANGED <<server, containerId, container, terminalManager,
                   fileManager, persisted, running, tms, lockQueue, tid,
                   tmRef, procs, terminals, events, stale, made, createCalls,
                   initCalls, disconnects, noops, created, dbWrites, fresh>>
    /\ UNCHANGED <<heartbeatVars, callbackVars, otherVars>>

\* The export rejected: the handler rejects.
DeployExportFail(c) ==
    /\ pc[c] = "dp_export"
    /\ pc' = [pc EXCEPT ![c] = "ready"]
    /\ rejected' = rejected \cup {c}
    /\ UNCHANGED deployVars
    /\ calls' = calls
    /\ UNCHANGED <<server, containerId, container, terminalManager,
                   fileManager, persisted, running, tms, lockQueue, tid,
                   tmRef, procs, terminals, events, stale, made, createCalls,
                   initCalls, disconnects, noops, created, dbWrites, fresh>>
    /\ UNCHANGED <<heartbeatVars, callbackVars, otherVars>>

\* The push resolved: line 215 returns { success: true }.
DeployPushOk(c) ==
    /\ pc[c] = "dp_push"
    /\ pc' = [pc EXCEPT ![c] = "ready"]
    /\ rejected' = rejected
    /\ UNCHANGED deployVars
    /\ calls' = calls
    /\ UNCHANGED <<server, containerId, container, terminalManager,
                   fileManager, persisted, running, tms, lockQueue, tid,
                   tmRef, procs, terminals, events, stale, made, createCalls,
                   initCalls, disconnects, noops, created, dbWrites, fresh>>
    /\ UNCHANGED <<heartbeatVars, callbackVars, otherVars>>

\* The push rejected: the handler rejects.
DeployPushFail(c) ==
    /\ pc[c] = "dp_push"
    /\ pc' = [pc EXCEPT ![c] = "ready"]
    /\ rejected' = rejected \cup {c}
    /\ UNCHANGED deployVars
    /\ calls' = calls
    /\ UNCHANGED <<server, containerId, container, terminalManager,
                   fileManager, persisted, running, tms, lockQueue, tid,
                   tmRef, procs, terminals, events, stale, made, createCalls,
                   initCalls, disconnects, noops, created, dbWrites, fresh>>
    /\ UNCHANGED <<heartbeatVars, callbackVars, otherVars>>

\* connection.isOwner: true for the connection that opened the project.
OwnerConn == 1

IsOwner(c) == c = OwnerConn

\* Heartbeat without the test of line 134: every caller extends the timeout.
HeartbeatNoOwnerGate(c) ==
    /\ server = "project"
    /\ pc[c] = "ready"
    /\ calls < MaxCalls
    /\ calls' = calls + 1
    /\ rejected' = rejected \ {c}
    /\ IF container # Null
       THEN /\ timeoutCalls' = timeoutCalls + 1
            /\ hbResult' = [hbResult EXCEPT ![c] = "none"]
            /\ pc' = [pc EXCEPT ![c] = "h_wait"]
       ELSE /\ timeoutCalls' = timeoutCalls
            /\ hbResult' = [hbResult EXCEPT ![c] = "true"]
            /\ pc' = pc
    /\ UNCHANGED <<server, containerId, container, terminalManager,
                   fileManager, persisted, running, tms, lockQueue, tid,
                   tmRef, procs, terminals, events, stale, made, createCalls,
                   initCalls, disconnects, noops, created, dbWrites>>
    /\ UNCHANGED <<callbackVars, otherVars>>
    /\ UNCHANGED <<fresh, deployVars>>

\* handleHeartbeat is invoked.  A caller that is not the owner gets true at
\* once; for the owner `this.container?.setTimeout(...)` is called and
\* awaited (with no handle the optional chain calls nothing).
Heartbeat(c) ==
    /\ server = "project"
    /\ pc[c] = "ready"
    /\ calls < MaxCalls
    /\ calls' = calls + 1
    /\ rejected' = rejected \ {c}
    /\ IF IsOwner(c) /\ container # Null
       THEN /\ timeoutCalls' = timeoutCalls + 1
            /\ hbResult' = [hbResult EXCEPT ![c] = "none"]
            /\ pc' = [pc EXCEPT ![c] = "h_wait"]
       ELSE /\ timeoutCalls' = timeoutCalls
            /\ hbResult' = [hbResult EXCEPT ![c] = "true"]
            /\ pc' = pc
    /\ UNCHANGED <<server, containerId, container, terminalManager,
                   fileManager, persisted, running, tms, lockQueue, tid,
                   tmRef, procs, terminals, events, stale, made, createCalls,
                   initCalls, disconnects, noops, created, dbWrites>>
    /\ UNCHANGED <<callbackVars, otherVars>>
    /\ UNCHANGED <<fresh, deployVars>>

\* setTimeout resolved: line 143 returns true.
HeartbeatOk(c) ==
    /\ pc[c] = "h_wait"
    /\ hbResult' = [hbResult EXCEPT ![c] = "true"]
    /\ pc' = [pc EXCEPT ![c] = "ready"]
    /\ UNCHANGED <<server, containerId, container, terminalManager,
                   fileManager, persisted, running, tms, lockQueue, tid,
                   tmRef, procs, terminals, events, rejected, stale, made,
                   createCalls, initCalls, disconnects, noops, calls,
                   timeoutCalls, created, dbWrites>>
    /\ UNCHANGED <<callbackVars, otherVars>>
    /\ UNCHANGED <<fresh, deployVars>>

\* setTimeout rejected: the catch of lines 137-140 logs and returns false.
HeartbeatFail(c) ==
    /\ pc[c] = "h_wait"
    /\ hbResult' = [hbResult EXCEPT ![c] = "false"]
    /\ pc' = [pc EXCEPT ![c] = "ready"]
    /\ UNCHANGED <<server, containerId, container, terminalManager,
                   fileManager, persisted, running, tms, lockQueue, tid,
                   tmRef, procs, terminals, events, rejected, stale, made,
                   createCalls, initCalls, disconnects, noops, calls,
                   timeoutCalls, created, dbWrites>>
    /\ UNCHANGED <<callbackVars, otherVars>>
    /\ UNCHANGED <<fresh, deployVars>>

\* The terminalResponse payload the callback of lines 255-259 emits for a
\* chunk of process p: tagged with the id of the closure, sent to its socket.
ResponseEvent(p) ==
    [to |-> procs[p].owner, id |-> procs[p].id, src |-> p]

\* A live session of a TerminalManager emits a chunk; the manager hands it to
\* the callback supplied at creation.
ProcOutput(p) ==
    /\ p \in 1..Len(procs)
    /\ procs[p].sys = "tm"
    /\ procs[p].live
    /\ EmittedUpTo(Len(procs)) < MaxChunks
    /\ procs' = Deliver(p)
    /\ events' = events \cup {ResponseEvent(p)}
    /\ UNCHANGED <<server, containerId, container, terminalManager,
                   fileManager, persisted, running, tms, lockQueue, pc, tid,
                   tmRef, terminals, rejected, stale, made,
                   createCalls, initCalls, calls>>
    /\ UNCHANGED <<disconnects, noops>>
    /\ UNCHANGED <<heartbeatVars, callbackVars, otherVars>>
    /\ UNCHANGED <<created, dbWrites>>
    /\ UNCHANGED <<fresh, deployVars>>

----------------------------------------------------------------------------
(* extractPortNumber and one run of the output callback of createTerminal.  *)
(* A responseString is a sequence of characters: "e" is \x1B, "U" stands   *)
(* for the text `http://localhost:`, "x" for any other text.                *)

\* The characters bounded responseStrings are built from.
Alphabet == {"e", "[", "m", "U", "0", "3"}

\* The characters `\d` and `[0-9]` match, in value order.
DigitChars == <<"0", "1", "2", "3", "4", "5", "6", "7", "8", "9">>

IsDigit(ch) == \E i \in 1..Len(DigitChars) : DigitChars[i] = ch

DigitValue(ch) == (CHOOSE i \in 1..Len(DigitChars) : DigitChars[i] = ch) - 1

\* The example of the design document:
\* "\x1B[32mServer running at http://localhost:3001/\x1B[0m".
SpecExample ==
    <<"e", "[", "3", "2", "m", "x", "U", "3", "0", "0", "1", "x",
      "e", "[", "0", "m">>

\* Every responseString of at most MaxChunkLen characters, and the example.
Chunks ==
    UNION {[1..n -> Alphabet] : n \in 0..MaxChunkLen} \cup {SpecExample}

\* The first position from j on that `[0-9;]` does not match.
RECURSIVE ParamsEnd(_, _)
ParamsEnd(s, j) ==
    IF j <= Len(s) /\ (IsDigit(s[j]) \/ s[j] = ";")
    THEN ParamsEnd(s, j + 1) ELSE j

\* Length of the match of /\x1B\[[0-9;]*m/ at the start of s, 0 for none.
EscLen(s) ==
    IF Len(s) >= 3 /\ s[1] = "e" /\ s[2] = "["
    THEN LET j == ParamsEnd(s, 3)
         IN IF j <= Len(s) /\ s[j] = "m" THEN j ELSE 0
    ELSE 0

\* inputString.replace(/\x1B\[[0-9;]*m/g, ""): one pass, left to right.
RECURSIVE Strip(_)
Strip(s) ==
    IF s = <<>> THEN <<>>
    ELSE IF EscLen(s) > 0 THEN Strip(SubSeq(s, EscLen(s) + 1, Len(s)))
    ELSE <<Head(s)>> \o Strip(Tail(s))

\* The first position from j on that `\d` does not match.
RECURSIVE DigitsEnd(_, _)
DigitsEnd(s, j) ==
    IF j <= Len(s) /\ IsDigit(s[j]) THEN DigitsEnd(s, j + 1) ELSE j

\* parseInt of a string of decimal digits.
RECURSIVE ParseInt(_)
ParseInt(d) ==
    IF d = <<>> THEN 0
    ELSE 10 * ParseInt(SubSeq(d, 1, Len(d) - 1)) + DigitValue(d[Len(d)])

\* The `null` extractPortNumber returns when nothing matches.
NoPort == -1

\* extractPortNumber: strip the colour sequences, take the first match of
\* /http:\/\/localhost:(\d+)/ and parse its digits.
ExtractPortNumber(inputString) ==
    LET cleanedString == Strip(inputString)
        starts == {i \in 1..(Len(cleanedString) - 1) :
                      cleanedString[i] = "U" /\ IsDigit(cleanedString[i + 1])}
    IN IF starts = {} THEN NoPort
       ELSE LET i == CHOOSE k \in starts : \A l \in starts : k <= l
            IN ParseInt(SubSeq(cleanedString, i + 1,
                               DigitsEnd(cleanedString, i + 1) - 1))

\* An initialized session whose terminal is about to emit `chunk`.
InitPort ==
    /\ server = "project"
    /\ containerId = StaleId
    /\ container = StaleId
    /\ terminalManager = Null
    /\ fileManager = Null
    /\ persisted = StaleId
    /\ running = {StaleId}
    /\ tms = <<>>
    /\ lockQueue = <<>>
    /\ pc = [c \in Conns |-> "idle"]
    /\ tid = [c \in Conns |-> NoTag]
    /\ tmRef = [c \in Conns |-> Null]
    /\ procs = <<>>
    /\ terminals = [i \in TermIds |-> Null]
    /\ events = {}
    /\ rejected = {}
    /\ stale = [c \in Conns |-> Null]
    /\ made = [c \in Conns |-> Null]
    /\ createCalls = 0
    /\ initCalls = 0
    /\ disconnects = 0
    /\ noops = 0
    /\ calls = 0
    /\ hbResult = [c \in Conns |-> "none"]
    /\ timeoutCalls = 0
    /\ created = <<>>
    /\ dbWrites = <<>>
    /\ chunk \in Chunks
    /\ pushed = <<>>
    /\ otherPc = "idle"
    /\ otherQueue = <<>>
    /\ fresh = [c \in Conns |-> FALSE]
    /\ exports = 0
    /\ pushes = 0

\* Lines 255-267, one run: emit terminalResponse, then previewURL when
\* `if (port)` passes (null and 0 do not).
OutputCallback ==
    /\ pushed = <<>>
    /\ LET port == ExtractPortNumber(chunk)
       IN pushed' =
            <<[type |-> "terminalResponse", port |-> NoPort]>> \o
            (IF port # NoPort /\ port # 0
             THEN <<[type |-> "previewURL", port |-> port]>> ELSE <<>>)
    /\ UNCHANGED <<server, containerId, container, terminalManager,
                   fileManager, persisted, running, tms, lockQueue, pc, tid,
                   tmRef, procs, terminals, events, rejected, stale, made,
                   createCalls, initCalls, disconnects, noops, calls,
                   created, dbWrites, chunk>>
    /\ UNCHANGED <<heartbeatVars, otherVars>>
    /\ UNCHANGED <<fresh, deployVars>>

NextPort == OutputCallback

SpecPort == InitPort /\ [][NextPort]_vars

----------------------------------------------------------------------------
(* The socket server of src/index.ts with the Pty class of terminal.ts      *)

\* socket.data.id: the sandbox (project) id the handshake of socket s carried;
\* every socket of a behaviour is connected to a project of its own.
SandboxIdOf(s) == s

\* io.on("connection"): the handlers of lines 78-122 are registered.
LegacyConnect(s) ==
    /\ server = "legacy"
    /\ pc[s] = "idle"
    /\ calls < MaxCalls
    /\ calls' = calls + 1
    /\ pc' = [pc EXCEPT ![s] = "ready"]
    /\ UNCHANGED <<server, procs, terminals, events, projectVars>>
    /\ UNCHANGED <<disconnects, noops>>
    /\ UNCHANGED <<heartbeatVars, callbackVars, otherVars>>
    /\ UNCHANGED <<created, dbWrites>>
    /\ UNCHANGED <<fresh, deployVars>>

\* socket.on("createTerminal"): `terminals[id] = new Pty(socket, id)`; the
\* constructor spawns the shell and subscribes onData.
LegacyCreateTerminal(s, id) ==
    /\ server = "legacy"
    /\ pc[s] = "ready"
    /\ calls < MaxCalls
    /\ calls' = calls + 1
    /\ procs' = Append(procs, NewProc("pty", Null, id, s))
    /\ terminals' = [terminals EXCEPT ![id] = Len(procs')]
    /\ UNCHANGED <<server, pc, events, projectVars>>
    /\ UNCHANGED <<disconnects, noops>>
    /\ UNCHANGED <<heartbeatVars, callbackVars, otherVars>>
    /\ UNCHANGED <<created, dbWrites>>
    /\ UNCHANGED <<fresh, deployVars>>

\* LegacyTerminalData without the early return of lines 112-116: data for a
\* missing id goes to whatever Pty objects the map holds.
LegacyTerminalDataNoGuard(s, id) ==
    /\ server = "legacy"
    /\ pc[s] = "ready"
    /\ calls < MaxCalls
    /\ calls' = calls + 1
    /\ procs' = [p \in 1..Len(procs) |->
                    IF terminals[id] = p
                       \/ (terminals[id] = Null
                           /\ \E i \in TermIds : terminals[i] = p)
                    THEN [procs[p] EXCEPT !.written = @ + 1]
                    ELSE procs[p]]
    /\ noops' = IF terminals[id] = Null THEN noops + 1 ELSE noops
    /\ UNCHANGED <<server, pc, terminals, events, projectVars>>
    /\ UNCHANGED <<heartbeatVars, callbackVars, otherVars>>
    /\ UNCHANGED <<created, dbWrites>>
    /\ UNCHANGED <<fresh, deployVars>>

\* socket.on("terminalData"): returns when terminals[id] is missing, else
\* terminals[id].write(data).
LegacyTerminalData(s, id) ==
    /\ server = "legacy"
    /\ pc[s] = "ready"
    /\ calls < MaxCalls
    /\ calls' = calls + 1
    /\ procs' = IF terminals[id] = Null THEN procs
                ELSE [procs EXCEPT ![terminals[id]].written = @ + 1]
    /\ noops' = IF terminals[id] = Null THEN noops + 1 ELSE noops
    /\ UNCHANGED <<server, pc, terminals, events, projectVars>>
    /\ UNCHANGED <<disconnects>>
    /\ UNCHANGED <<heartbeatVars, callbackVars, otherVars>>
    /\ UNCHANGED <<created, dbWrites>>
    /\ UNCHANGED <<fresh, deployVars>>

\* socket.on("disconnect", () => {}): the handler is empty.
LegacyDisconnect(s) ==
    /\ server = "legacy"
    /\ pc[s] = "ready"
    /\ calls < MaxCalls
    /\ calls' = calls + 1
    /\ pc' = [pc EXCEPT ![s] = "gone"]
    /\ UNCHANGED <<server, procs, terminals, events, projectVars>>
    /\ UNCHANGED <<disconnects, noops>>
    /\ UNCHANGED <<heartbeatVars, callbackVars, otherVars>>
    /\ UNCHANGED <<created, dbWrites>>
    /\ UNCHANGED <<fresh, deployVars>>

\* Pty.send(data): the payload holds `data` only, no terminal id.
PtyEvent(p) == [to |-> procs[p].owner, id |-> NoTag, src |-> p]

\* ptyProcess.onData: the shell of a Pty emits a chunk and Pty.send pushes it
\* to the socket given to the constructor.
PtyOnData(p) ==
    /\ p \in 1..Len(procs)
    /\ procs[p].sys = "pty"
    /\ procs[p].live
    /\ EmittedUpTo(Len(procs)) < MaxChunks
    /\ procs' = Deliver(p)
    /\ events' = events \cup {PtyEvent(p)}
    /\ UNCHANGED <<server, pc, terminals, calls, projectVars>>
    /\ UNCHANGED <<disconnects, noops>>
    /\ UNCHANGED <<heartbeatVars, callbackVars, otherVars>>
    /\ UNCHANGED <<created, dbWrites>>
    /\ UNCHANGED <<fresh, deployVars>>

----------------------------------------------------------------------------
(* A second Project session, for another project id, served by the same     *)
(* lockManager: one caller running initialize() or createTerminal on it.    *)
(* Only its use of the lock is modelled: the body of its critical section   *)
(* touches nothing of the first session.                                    *)

\* The caller on the second session.
OtherConn == NumConns + 1

\* OtherCall with acquireLock keyed by a constant instead of this.projectId:
\* the section queues behind the sections of the first project.
OtherCallSameKey ==
    /\ server = "project"
    /\ otherPc \in {"idle", "done"}
    /\ calls < MaxCalls
    /\ calls' = calls + 1
    /\ lockQueue' = Append(lockQueue, OtherConn)
    /\ otherPc' = "o_wait"
    /\ UNCHANGED <<server, containerId, container, terminalManager,
                   fileManager, persisted, running, tms, pc, tid, tmRef,
                   procs, terminals, events, rejected, stale, made,
                   createCalls, initCalls, disconnects, noops, created,
                   dbWrites, otherQueue>>
    /\ UNCHANGED <<heartbeatVars, callbackVars>>
    /\ UNCHANGED <<fresh, deployVars>>

\* The call: acquireLock(this.projectId, ...) queues the section under the
\* second project's key.
OtherCall ==
    /\ server = "project"
    /\ otherPc \in {"idle", "done"}
    /\ calls < MaxCalls
    /\ calls' = calls + 1
    /\ otherQueue' = Append(otherQueue, OtherConn)
    /\ otherPc' = "o_wait"
    /\ UNCHANGED <<server, containerId, container, terminalManager,
                   fileManager, persisted, running, tms, lockQueue, pc, tid,
                   tmRef, procs, terminals, events, rejected, stale, made,
                   createCalls, initCalls, disconnects, noops, created,
                   dbWrites>>
    /\ UNCHANGED <<heartbeatVars, callbackVars>>
    /\ UNCHANGED <<fresh, deployVars>>

\* The section starts once its caller is at the head of its key's queue.
OtherEnter ==
    /\ otherPc = "o_wait"
    /\ otherQueue # <<>> /\ Head(otherQueue) = OtherConn
    /\ otherPc' = "o_cs"
    /\ UNCHANGED <<server, containerId, container, terminalManager,
                   fileManager, persisted, running, tms, lockQueue, pc, tid,
                   tmRef, procs, terminals, events, rejected, stale, made,
                   createCalls, initCalls, disconnects, noops, calls,
                   created, dbWrites, otherQueue>>
    /\ UNCHANGED <<heartbeatVars, callbackVars>>
    /\ UNCHANGED <<fresh, deployVars>>

\* The section resolves or rejects; its key is released and the call ends.
OtherFinish ==
    /\ otherPc = "o_cs"
    /\ otherQueue' = Tail(otherQueue)
    /\ otherPc' = "done"
    /\ UNCHANGED <<server, containerId, container, terminalManager,
                   fileManager, persisted, running, tms, lockQueue, pc, tid,
                   tmRef, procs, terminals, events, rejected, stale, made,
                   createCalls, initCalls, disconnects, noops, calls,
                   created, dbWrites>>
    /\ UNCHANGED <<heartbeatVars, callbackVars>>
    /\ UNCHANGED <<fresh, deployVars>>

----------------------------------------------------------------------------
Next ==
    \/ \E c \in Conns :
        \/ Initialize(c)
        \/ InitEnter(c)
        \/ InitConnectOk(c)
        \/ InitConnectFail(c)
        \/ InitIsRunning(c)
        \/ InitIsRunningFail(c)
        \/ InitCreateOk(c)
        \/ InitCreateFail(c)
        \/ InitPersistOk(c)
        \/ InitPersistFail(c)
        \/ InitPost(c)
        \/ Disconnect(c)
        \/ DisconnectClosed(c)
        \/ DisconnectCloseFail(c)
        \/ DisconnectStopFail(c)
        \/ DisconnectStopped(c)
        \/ TermEnter(c)
        \/ TermSpawnOk(c)
        \/ TermSpawnFail(c)
        \/ ResizeTerminal(c)
        \/ Heartbeat(c)
        \/ HeartbeatOk(c)
        \/ HeartbeatFail(c)
        \/ LegacyConnect(c)
        \/ LegacyDisconnect(c)
    \/ \E c \in Conns, id \in TermIds :
        \/ CreateTerminal(c, id)
        \/ TerminalData(c, id)
        \/ CloseTerminal(c, id)
        \/ LegacyCreateTerminal(c, id)
        \/ LegacyTerminalData(c, id)
    \/ \E p \in 1..Len(procs) :
        \/ ProcOutput(p)
        \/ PtyOnData(p)

Spec == Init /\ [][Next]_vars

\* Two sessions and the one lockManager: sessions start uninitialized.
InitKeys == Init /\ server = "project"

\* The calls that take the lock, on both sessions.
NextKeys ==
    \/ \E c \in Conns :
        \/ Initialize(c)
        \/ InitEnter(c)
        \/ InitConnectOk(c)
        \/ InitConnectFail(c)
        \/ InitIsRunning(c)
        \/ InitIsRunningFail(c)
        \/ InitCreateOk(c)
        \/ InitCreateFail(c)
        \/ InitPersistOk(c)
        \/ InitPersistFail(c)
        \/ InitPost(c)
        \/ TermEnter(c)
        \/ TermSpawnOk(c)
        \/ TermSpawnFail(c)
    \/ \E c \in Conns, id \in TermIds : CreateTerminal(c, id)
    \/ OtherCall
    \/ OtherEnter
    \/ OtherFinish

SpecKeys == InitKeys /\ [][NextKeys]_vars

\* A step that does not wait for a client: the lock grants the head of the
\* queue, an awaited sandbox, spawn or database call resolves or rejects, the
\* code after acquireLock runs.
LockProgress(c) ==
    \/ InitEnter(c)
    \/ InitConnectOk(c)
    \/ InitConnectFail(c)
    \/ InitIsRunning(c)
    \/ InitIsRunningFail(c)
    \/ InitCreateOk(c)
    \/ InitCreateFail(c)
    \/ InitPersistOk(c)
    \/ InitPersistFail(c)
    \/ InitPost(c)
    \/ TermEnter(c)
    \/ TermSpawnOk(c)
    \/ TermSpawnFail(c)

\* The calls that take the project's key, and disconnect(), which decides
\* whether a createTerminal section has a manager to call.
NextLive ==
    \/ \E c \in Conns :
        \/ Initialize(c)
        \/ InitEnter(c)
        \/ InitConnectOk(c)
        \/ InitConnectFail(c)
        \/ InitIsRunning(c)
        \/ InitIsRunningFail(c)
        \/ InitCreateOk(c)
        \/ InitCreateFail(c)
        \/ InitPersistOk(c)
        \/ InitPersistFail(c)
        \/ InitPost(c)
        \/ Disconnect(c)
        \/ DisconnectClosed(c)
        \/ DisconnectCloseFail(c)
        \/ DisconnectStopFail(c)
        \/ DisconnectStopped(c)
        \/ TermEnter(c)
        \/ TermSpawnOk(c)
        \/ TermSpawnFail(c)
    \/ \E c \in Conns, id \in TermIds : CreateTerminal(c, id)

\* Every critical section finishes: each awaited call settles and a granted
\* section starts.
SpecLive ==
    /\ InitKeys
    /\ [][NextLive]_vars
    /\ \A c \in Conns : WF_vars(LockProgress(c))

\* The provider stops sandbox x (its timeout ran out, or it was killed); the
\* event counts as one of the MaxCalls invocations of a behaviour.
SandboxStops(x) ==
    /\ server = "project"
    /\ x \in running
    /\ calls < MaxCalls
    /\ calls' = calls + 1
    /\ running' = running \ {x}
    /\ UNCHANGED <<server, containerId, container, terminalManager,
                   fileManager, persisted, tms, lockQueue, pc, tid, tmRef,
                   procs, terminals, events, rejected, stale, made,
                   createCalls, initCalls, disconnects, noops, created,
                   dbWrites>>
    /\ UNCHANGED <<heartbeatVars, callbackVars, otherVars>>
    /\ UNCHANGED <<fresh, deployVars>>

\* One Project session over its life: the calls of NextLive while the
\* provider may stop its sandboxes.
NextSession ==
    \/ NextLive
    \/ \E x \in running : SandboxStops(x)
    \/ \E c \in Conns, gitClient \in GitClients : Deploy(c, gitClient)
    \/ \E c \in Conns :
        \/ DeployExportOk(c)
        \/ DeployExportFail(c)
        \/ DeployPushOk(c)
        \/ DeployPushFail(c)

SpecSession == InitKeys /\ [][NextSession]_vars

----------------------------------------------------------------------------
(* Properties                                                              *)

\* A connection's initialize() call has not returned or rejected yet.
InitInFlight(c) == pc[c] \in {"i_wait", "i_post"} \cup InitCS

\* C1: for a project that starts without a running sandbox, once the
\* initialize() calls issued on the session have all finished, exactly one
\* Container.create call has been made in total.
C1_ExactlyOneCreate ==
    ( /\ server = "project"
      /\ StaleId \notin running
      /\ initCalls >= 1
      /\ \A c \in Conns : ~InitInFlight(c) )
    => createCalls = 1

\* C2: an initialize() that found the last-known id's handle not running has,
\* once it returned, created a new sandbox whose id is the session's id and
\* the persisted id; neither is the stale id.
C2_StaleIdReplaced ==
    \A c \in Conns :
        (pc[c] \in {"i_post", "ready"} /\ stale[c] # Null) =>
            /\ made[c] # Null
            /\ made[c] # stale[c]
            /\ made[c] \in running
            /\ containerId = made[c]
            /\ persisted = made[c]
            /\ containerId # stale[c]
            /\ persisted # stale[c]

\* C2 witness: an initialize() returned after replacing the stale sandbox.
C2_Witness ==
    \E c \in Conns :
        pc[c] = "ready" /\ stale[c] = StaleId /\ made[c] # Null

\* C3: at no time do two critical sections of the project run at once,
\* whether initialize()'s or createTerminal's; the one that runs holds the
\* key, so it starts only after the previous one has ended.
C3_MutualExclusion ==
    /\ Cardinality({c \in Conns : pc[c] \in CSPcs}) <= 1
    /\ \A c \in Conns : pc[c] \in CSPcs => Granted(c)

\* C3 witness: a createTerminal section runs while an initialize() of another
\* connection waits for the same key.
C3_Witness ==
    \E c, d \in Conns : pc[c] \in TermCS /\ pc[d] = "i_wait"

\* C4: a critical section that failed has released the key and its caller
\* saw the rejection: the queue holds exactly the callers whose section is
\* pending or running, never one whose call has rejected, so a later
\* initialize() or createTerminal can enter.
C4_LockReleasedOnFailure ==
    /\ \A c \in Conns : c \in Range(lockQueue) <=> pc[c] \in CSPcs \cup WaitPcs
    /\ \A c \in rejected : pc[c] \in {"idle", "ready"} /\ c \notin Range(lockQueue)
    /\ lockQueue # <<>> /\ (\A c \in Conns : pc[c] \notin CSPcs)
            => pc[Head(lockQueue)] \in WaitPcs

\* C4 witness: the only call of one connection, an initialize(), rejected in
\* its section and another connection's section runs afterwards.
C4_Witness ==
    \E c, d \in Conns :
        /\ calls = 2
        /\ c \in rejected /\ pc[c] = "idle"
        /\ pc[d] \in InitCS

\* C5: a failing connect to the last-known id does not fail initialize(): the
\* call goes on, with no handle, to create a new sandbox.
C5_ConnectFailureTolerated ==
    [][\A c \in Conns :
          InitConnectFail(c) =>
              /\ pc'[c] = "i_create"
              /\ c \notin rejected'
              /\ container' = Null]_vars

\* The steps at which initialize() of c rejects.
InitRejects(c) ==
    \/ InitConnectFail(c)
    \/ InitIsRunningFail(c)
    \/ InitCreateFail(c)
    \/ InitPersistFail(c)
    \/ InitPost(c) /\ c \in rejected'

\* C6: when a step of initialize()'s critical section fails, initialize()
\* rejects and leaves no partial state: no handle obtained during the attempt
\* (by connect or create) is kept, the in-memory id equals the persisted id,
\* and no terminal manager or file manager is constructed.
C6_NoPartialState ==
    [][\A c \in Conns :
          InitRejects(c) =>
              /\ c \in rejected'
              /\ pc[c] \in {"i_running", "i_create", "i_persist"}
                    => container' = Null
              /\ containerId' = persisted'
              /\ terminalManager' = terminalManager
              /\ fileManager' = fileManager]_vars

\* C7: every terminalResponse event caused by a process carries the logical
\* id the process is registered under and goes to the connection that
\* created it, so output of A never reaches the listener of B.
C7_TerminalIsolation ==
    \A e \in events :
        /\ e.id = procs[e.src].id
        /\ e.to = procs[e.src].owner

\* Nothing of the terminal sessions changes and the caller sees no rejection.
SessionsUnchanged(c) ==
    /\ procs' = procs
    /\ terminals' = terminals
    /\ events' = events
    /\ terminalManager' = terminalManager
    /\ c \notin rejected'

\* C8: terminalData and closeTerminal for an id that is not registered,
\* resizeTerminal with no active terminal, and any of them with no manager,
\* do not throw and leave every terminal session as it was.
C8_NoOpOnUnknownId ==
    [][\A c \in Conns :
          /\ (ResizeTerminal(c) /\ NoActiveTerminal) => SessionsUnchanged(c)
          /\ \A id \in TermIds :
                /\ (TerminalData(c, id) /\ NoTerminal(id))
                      => SessionsUnchanged(c)
                /\ (CloseTerminal(c, id) /\ NoTerminal(id))
                      => SessionsUnchanged(c)
                /\ (LegacyTerminalData(c, id) /\ terminals[id] = Null)
                      => SessionsUnchanged(c)]_vars

\* C8 witness: an event found no target while a live session was registered.
C8_Witness ==
    /\ noops > 0
    /\ \E p \in 1..Len(procs) :
          /\ procs[p].live
          /\ procs[p].reg \/ \E i \in TermIds : terminals[i] = p

\* C9: when disconnect() returns, every process that was open in the
\* registry has been closed exactly once, the registry is empty, and the
\* terminal manager and file manager references are null.
C9_TeardownComplete ==
    [][\A c \in Conns :
          /\ DisconnectStopped(c) =>
                /\ terminalManager' = Null
                /\ fileManager' = Null
                /\ \A p \in 1..Len(procs') :
                      procs'[p].sys = "tm" =>
                          ~procs'[p].reg /\ procs'[p].closes = 1
          /\ LegacyDisconnect(c) =>
                \A p \in 1..Len(procs') :
                    procs'[p].owner = c =>
                        /\ procs'[p].closes = 1
                        /\ terminals'[procs'[p].id] # p]_vars

\* C10 as stated: once a disconnect() has returned, the section of a
\* createTerminal call spawns a shell process.
C10_CreateAfterDisconnect ==
    [][\A c \in Conns :
          (TermEnter(c) /\ disconnects > 0) => pc'[c] = "t_spawn"]_vars

\* C10 amended: createTerminal spawns exactly when a terminal manager exists
\* when its section runs, which after a disconnect() takes an initialize()
\* that constructed a new one; a manager is constructed with an empty
\* registry, a spawn that resolves registers the new live process under the
\* logical id, as the only one under it, bound to the calling connection,
\* and its output is pushed to that connection under that id.
C10_CreateAfterReinitialize ==
    [][\A c \in Conns :
          /\ TermEnter(c) =>
                /\ pc'[c] = "t_spawn" <=> terminalManager # Null
                /\ terminalManager = Null => procs' = procs
          /\ (InitPost(c) /\ terminalManager' # terminalManager) =>
                /\ terminalManager = Null
                /\ terminalManager' = Len(tms')
                /\ tms'[terminalManager'] = container
                /\ \A p \in 1..Len(procs') :
                      procs'[p].tm # terminalManager'
          /\ TermSpawnOk(c) =>
                /\ Len(procs') = Len(procs) + 1
                /\ procs'[Len(procs')] =
                      NewProc("tm", tmRef[c], tid[c], c)
                /\ {p \in 1..Len(procs') :
                        /\ procs'[p].sys = "tm"
                        /\ procs'[p].tm = tmRef[c]
                        /\ procs'[p].reg
                        /\ procs'[p].id = tid[c]} = {Len(procs')}
          /\ \A p \in 1..Len(procs) :
                ProcOutput(p) =>
                    events' = events \cup
                        {[to |-> procs[p].owner, id |-> procs[p].id,
                          src |-> p]}]_vars

\* C10 witness: after a disconnect() returned, a process spawned through a
\* manager constructed later is live and registered, and its output reached
\* the connection that created it.
C10_Witness ==
    /\ disconnects > 0
    /\ Len(tms) >= 2
    /\ \E p \in 1..Len(procs) :
          /\ procs[p].tm = terminalManager
          /\ procs[p].live /\ procs[p].reg
          /\ ResponseEvent(p) \in events

\* C11: a heartbeat of a connection that is not the owner makes no
\* setTimeout call and returns true; a heartbeat of the owner makes at most
\* one setTimeout call, returns true when it resolved and false, without
\* throwing, when it rejected.
C11_HeartbeatOwnerGated ==
    [][\A c \in Conns :
          /\ (Heartbeat(c) /\ ~IsOwner(c)) =>
                /\ timeoutCalls' = timeoutCalls
                /\ hbResult'[c] = "true"
                /\ pc'[c] = "ready"
                /\ c \notin rejected'
          /\ (Heartbeat(c) /\ IsOwner(c)) =>
                /\ timeoutCalls' \in {timeoutCalls, timeoutCalls + 1}
                /\ c \notin rejected'
                /\ pc'[c] = "ready" => hbResult'[c] = "true"
          /\ pc[c] = "h_wait" =>
                /\ IsOwner(c)
                /\ timeoutCalls' = timeoutCalls
                /\ c \notin rejected'
                /\ pc'[c] \in {"h_wait", "ready"}
          /\ HeartbeatOk(c) => hbResult'[c] = "true"
          /\ HeartbeatFail(c) => hbResult'[c] = "false"]_vars

\* C11 witness: the owner's heartbeat returned false after its one
\* setTimeout call rejected, and another connection's heartbeat returned true
\* without a call.
C11_Witness ==
    \E c, d \in Conns :
        /\ IsOwner(c) /\ ~IsOwner(d)
        /\ hbResult[c] = "false" /\ pc[c] = "ready"
        /\ hbResult[d] = "true"
        /\ timeoutCalls = 1

\* The positions of the cleaned responseString where `http://localhost:` is
\* followed by a digit.
UrlStarts(cleaned) ==
    {i \in 1..(Len(cleaned) - 1) : cleaned[i] = "U" /\ IsDigit(cleaned[i + 1])}

\* The ports (digit runs read as decimal numbers) of those occurrences.
UrlPorts(cleaned) ==
    {ParseInt(SubSeq(cleaned, i + 1, DigitsEnd(cleaned, i + 1) - 1)) :
        i \in UrlStarts(cleaned)}

\* C12: once the output callback has run on a chunk: if the chunk, with the
\* colour sequences stripped, contains http://localhost:<port>, exactly a
\* terminalResponse and then a previewURL for that port were pushed (3001 for
\* the example); if it contains none, only the terminalResponse was pushed.
C12_PreviewForEveryPort ==
    pushed # <<>> =>
        /\ pushed[1].type = "terminalResponse"
        /\ IF UrlStarts(Strip(chunk)) # {}
           THEN /\ Len(pushed) = 2
                /\ pushed[2].type = "previewURL"
                /\ pushed[2].port \in UrlPorts(Strip(chunk))
           ELSE Len(pushed) = 1
        /\ chunk = SpecExample =>
                Len(pushed) = 2 /\ pushed[2].port = 3001

\* A step of disconnect() called by c.
DisconnectStep(c) ==
    \/ Disconnect(c)
    \/ DisconnectClosed(c)
    \/ DisconnectCloseFail(c)
    \/ DisconnectStopFail(c)
    \/ DisconnectStopped(c)

\* C13: no step of disconnect() changes the sandbox handle or the session's
\* sandbox id, stops or creates a sandbox, or writes the persisted id; it
\* changes only the terminal manager reference, the file manager reference
\* and the processes of the manager it closes, which become closed.
C13_DisconnectKeepsSandbox ==
    [][\A c \in Conns :
          DisconnectStep(c) =>
              /\ UNCHANGED <<container, containerId, running, persisted,
                             createCalls, created, dbWrites, timeoutCalls,
                             lockQueue, tms, terminals, events>>
              /\ Len(procs') = Len(procs)
              /\ \A p \in 1..Len(procs) :
                    procs'[p] # procs[p] =>
                        /\ procs[p].sys = "tm" /\ procs[p].tm = tmRef[c]
                        /\ ~procs'[p].live]_vars

\* C13 witness: a disconnect() that closed a live process has returned and
\* the session still holds the handle and the id of a running sandbox.
C13_Witness ==
    /\ disconnects > 0
    /\ terminalManager = Null /\ fileManager = Null
    /\ container # Null /\ containerId = container
    /\ container \in running
    /\ \E p \in 1..Len(procs) : procs[p].closes = 1

\* The registry that spawned process p still holds it under its logical id.
Referenced(p) ==
    IF procs[p].sys = "tm" THEN procs[p].reg
    ELSE terminals[procs[p].id] = p

\* C14: every live process is the one its registry holds under its logical
\* id, so a logical id has at most one live process and a process replaced
\* by a later createTerminal with the same id has been closed.
C14_NoOrphanProcess ==
    /\ \A p \in 1..Len(procs) : procs[p].live => Referenced(p)
    /\ \A p, q \in 1..Len(procs) :
          ( /\ procs[p].live /\ procs[q].live
            /\ procs[p].sys = procs[q].sys
            /\ procs[p].tm = procs[q].tm
            /\ procs[p].id = procs[q].id ) => p = q

TornDown(p) ==
    \/ ~procs[p].live
    \/ procs[p].sys = "pty" /\ pc[procs[p].owner] = "gone"

\* C16: once the session of a process has been torn down its callback is
\* not run again: no chunk of it is delivered and no event of it is pushed.
C16_NoOutputAfterTeardown ==
    [][\A p \in 1..Len(procs) :
          TornDown(p) =>
              /\ procs'[p].got = procs[p].got
              /\ \A e \in events' \ events : e.src # p]_vars

\* C17: a database update is issued only by an initialize() that holds the
\* key, in the step in which its Container.create resolved, with the id just
\* created, so the updates issued are the sandboxes created, one each and in
\* order; the persisted id changes only when such an update resolves, to the
\* id its caller created; an initialize() that created nothing (it found its
\* sandbox running) issues no update.
C17_PersistOncePerCreate ==
    [][/\ dbWrites' = created'
       /\ dbWrites' # dbWrites =>
             \E c \in Conns :
                 /\ pc[c] = "i_create" /\ Granted(c)
                 /\ made'[c] \in running' \ running
                 /\ made'[c] = containerId'
                 /\ dbWrites' = Append(dbWrites, made'[c])
       /\ persisted' # persisted =>
             \E c \in Conns :
                 /\ pc[c] = "i_persist" /\ Granted(c)
                 /\ persisted' = made[c]
                 /\ persisted' = dbWrites[Len(dbWrites)]
       /\ \A c \in Conns :
             (pc[c] = "i_running" /\ pc'[c] = "i_post") =>
                 /\ made[c] = Null
                 /\ dbWrites' = dbWrites
                 /\ persisted' = persisted]_vars

\* C17 witness: one initialize() created a sandbox and its id was persisted
\* by the one update issued; another initialize() then found that sandbox
\* running and returned without creating.
C17_Witness ==
    \E c, d \in Conns :
        /\ pc[c] = "ready" /\ made[c] # Null
        /\ dbWrites = <<made[c]>> /\ persisted = made[c]
        /\ pc[d] = "ready" /\ made[d] = Null
        /\ initCalls = 2

\* C18: a caller waiting for the key of the second project can start its
\* section at once, whatever the queue of the first project holds (a section
\* in progress, one that never finishes, waiters behind it); the two queues
\* never hold each other's callers.
C18_OtherKeyNotDelayed ==
    /\ otherPc = "o_wait" => ENABLED OtherEnter
    /\ OtherConn \notin Range(lockQueue)
    /\ \A c \in Conns : c \notin Range(otherQueue)

\* C18 witness: the call on the second project has run to completion while
\* a section of the first project is in progress with a waiter behind it.
C18_Witness ==
    /\ otherPc = "done"
    /\ \E c, d \in Conns :
          /\ pc[c] \in CSPcs /\ Granted(c)
          /\ pc[d] \in WaitPcs

\* C19: a terminal manager is constructed only by an initialize() that finds
\* the reference null, one at a time, and becomes the current one; an
\* initialize() that finds a manager (a file manager) present leaves it in
\* place and constructs none, so of initialize() calls that passed the lock
\* together only the first to reach the check constructs.
C19_ConstructIfAbsent ==
    [][/\ tms' # tms =>
             /\ terminalManager = Null
             /\ tms' = Append(tms, container)
             /\ terminalManager' = Len(tms')
             /\ \E c \in Conns : pc[c] = "i_post" /\ pc'[c] = "ready"
       /\ terminalManager' # Null => terminalManager' = Len(tms')
       /\ \A c \in Conns :
             InitPost(c) =>
                 /\ terminalManager # Null =>
                       terminalManager' = terminalManager /\ tms' = tms
                 /\ fileManager # Null => fileManager' = fileManager
                 /\ (fileManager = Null /\ pc'[c] = "ready") =>
                       fileManager' = container]_vars

\* C19 witness: two initialize() calls were past the lock together (one is
\* still before its check) and one manager has been constructed.
C19_Witness ==
    \E c, d \in Conns :
        /\ pc[c] = "ready" /\ pc[d] = "i_post"
        /\ Len(tms) = 1 /\ terminalManager = 1 /\ fileManager # Null
        /\ calls = 2 /\ initCalls = 2

SandboxKept ==
    UNCHANGED <<containerId, createCalls, created, dbWrites, persisted>>

\* C21: an initialize() whose isRunning() finds the session's sandbox
\* running, first or repeated, after a disconnect() or not, makes no create
\* call, issues no database update, leaves the sandbox id and the persisted id
\* as they were, and returns with a terminal manager and a file manager.
C21_ReinitIdempotent ==
    [][\A c \in Conns :
          /\ (pc[c] \in {"i_wait", "i_connect"} /\ pc'[c] # pc[c])
                => SandboxKept
          /\ (pc[c] = "i_running" /\ container \in running
                  /\ pc'[c] # pc[c]) =>
                /\ pc'[c] \in {"i_post", "idle"}
                /\ made'[c] = Null
                /\ SandboxKept /\ container' = container
          /\ (pc[c] = "i_post" /\ made[c] = Null /\ pc'[c] # pc[c]) =>
                /\ pc'[c] = "ready" /\ c \notin rejected'
                /\ terminalManager' # Null /\ fileManager' # Null
                /\ SandboxKept /\ container' = container]_vars

\* C21 witness: after a disconnect() returned, a second initialize() found
\* the sandbox created by the first still running and returned, with a new
\* manager and no second create.
C21_Witness ==
    \E c \in Conns :
        /\ pc[c] = "ready" /\ made[c] = Null
        /\ disconnects > 0 /\ initCalls = 2
        /\ Len(created) = 1 /\ containerId = created[1]
        /\ dbWrites = created
        /\ container \in running
        /\ Len(tms) = 2 /\ terminalManager = 2 /\ fileManager # Null

\* C22: a deploy invoked without a gitClient, or while the session has no
\* file manager, rejects in the same step: no export and no push is started,
\* and nothing of the session (handle, id, managers, processes, lock) or of
\* another connection changes.
C22_DeployFailsFast ==
    [][\A c \in Conns, gitClient \in GitClients :
          (Deploy(c, gitClient) /\ (~gitClient \/ fileManager = Null)) =>
              /\ c \in rejected'
              /\ UNCHANGED <<exports, pushes>>
              /\ UNCHANGED <<container, containerId, persisted, running,
                             terminalManager, fileManager, tms, procs,
                             lockQueue, events>>
              /\ pc' = pc
              /\ rejected' \ {c} = rejected \ {c}]_vars

\* C22 witness: a connection that never touched a terminal had its deploy
\* rejected after another connection's disconnect() dropped the file manager;
\* nothing was exported.
C22_Witness ==
    \E c \in Conns :
        /\ c \in rejected /\ pc[c] = "ready" /\ tid[c] = NoTag
        /\ fileManager = Null /\ disconnects = 1
        /\ exports = 0 /\ pushes = 0
        /\ container # Null

\* C23: whenever the session holds a terminal manager and a sandbox handle,
\* the manager is the one constructed on that handle, so the terminals it
\* spawns run in the session's current sandbox.
C23_ManagerBoundToCurrentSandbox ==
    (server = "project" /\ terminalManager # Null /\ container # Null) =>
        tms[terminalManager] = container

\* No createTerminal and no disconnect() is in flight on any connection.
TerminalCallsFinished ==
    \A c \in Conns : pc[c] \notin {"t_wait", "t_spawn", "d_close", "d_stop"}

\* C24: once every createTerminal and every disconnect() has finished, each
\* live shell process is registered in the manager the session holds, where a
\* later closeTerminal or disconnect() finds it.
C24_NoUnreachableProcess ==
    (server = "project" /\ TerminalCallsFinished) =>
        \A p \in 1..Len(procs) :
            procs[p].live =>
                procs[p].reg /\ procs[p].tm = terminalManager

\* C25: from the successful return of an initialize() until the next
\* disconnect() begins, the session holds a sandbox handle, a terminal
\* manager and a file manager; a disconnect() that began earlier does not
\* remove them.
C25_ReadyUntilNextDisconnect ==
    \A c \in Conns :
        fresh[c] =>
            /\ container # Null
            /\ terminalManager # Null
            /\ fileManager # Null

\* C26: a createTerminal from one connection never replaces the registry
\* entry of a process created by a connection to a different project, and a
\* terminalData from one connection is never written to such a process, even
\* when both use the same logical id.
C26_NoCrossProjectInterference ==
    [][\A s \in Conns, id \in TermIds, p \in 1..Len(procs) :
          ( /\ procs[p].sys = "pty"
            /\ SandboxIdOf(procs[p].owner) # SandboxIdOf(s) ) =>
              /\ (LegacyCreateTerminal(s, id) /\ terminals[id] = p) =>
                    terminals'[id] = p
              /\ LegacyTerminalData(s, id) =>
                    procs'[p].written = procs[p].written]_vars

====
